---------------------------- MODULE Spec2Model ----------------------------
(***************************************************************************)
(* A model of prjman / project_patcher:                                    *)
(*                                                                         *)
(*   - the staged plugin registrar (src/src/prjman/defn/registrar.py),     *)
(*     checked under SpecRegistrar;                                        *)
(*   - the workspace reconciliation engine                                 *)
(*     (src/src/project_patcher/workspace/project.py), checked under       *)
(*     SpecEngine.                                                         *)
(*                                                                         *)
(* Each specification moves its own variables and leaves the other         *)
(* component's variables at their initial values.                          *)
(***************************************************************************)
EXTENDS Naturals, Sequences, FiniteSets, TLC

VARIABLES
    \* ---- PrjmanRegistrarImpl (registrar.py:26-42)
    stager,                     \* self.__stager
    file_codecs,                \* name -> codec
    file_builders,              \* name -> builder
    file_handler_exceptions,    \* name -> message
    post_processors,            \* name -> post processor
    post_processor_exceptions,  \* name -> message
    lastCall,                   \* the registrar method called last, and its name argument
    raised,                     \* what that call raised ("none": it returned)
    returned,                   \* what it returned, as a set ({} for None)
    \* ---- the four directories of the reconciliation engine (project.py)
    clean_dir,                  \* [exists, files: relative path -> text]
    working_dir,
    patch_dir,                  \* files: patch file name -> patch
    out_dir,
    opLog,                      \* the last two engine operations called, oldest first
    status,                     \* "ok": the last one returned True; "false": it
                                \* returned False; "error": it raised
    diffed,                     \* the paths the last output_working gave to generate_patch
    walked,                     \* the patch files in the order the last operation walked them
    cleanCall,                  \* the last setup_clean call: its flag and what the provider did
    \* ---- GitProjectFileCodec (git.py)
    iter_order,                 \* the order in which this process iterates _VALID_BRANCH_TYPES
    git_file,                   \* a GitProjectFile: [repository, branch, branch_type]
    git_doc,                    \* a document: key -> value
    git_decoded,                \* the GitProjectFile the last decode_type returned
    gitLog,                     \* the last two codec operations called, oldest first
    \* ---- two engine passes run as concurrent processes
    procs                       \* process -> [op, pc, todo]

registries == <<file_codecs, file_builders, file_handler_exceptions,
                post_processors, post_processor_exceptions>>

regVars == <<stager, file_codecs, file_builders, file_handler_exceptions,
             post_processors, post_processor_exceptions, lastCall, raised,
             returned>>

dirVars == <<clean_dir, working_dir, patch_dir, out_dir>>

engVars == <<clean_dir, working_dir, patch_dir, out_dir, opLog, status, diffed,
             walked, cleanCall>>

gitVars == <<iter_order, git_file, git_doc, git_decoded, gitLog>>

raceVars == <<procs>>

vars == <<regVars, engVars, gitVars, raceVars>>

-----------------------------------------------------------------------------
(***************************************************************************)
(* Shared helpers.  A Python dict is a function; d[k] = v is Put.          *)
(***************************************************************************)

EmptyMap == <<>>

\* d[k] = v that forgets what d held.
Put_forgets(map, key, value) == [k \in {key} |-> value]

Put(map, key, value) ==
    [k \in (DOMAIN map) \cup {key} |-> IF k = key THEN value ELSE map[k]]

-----------------------------------------------------------------------------
(***************************************************************************)
(*                              THE REGISTRAR                              *)
(***************************************************************************)

\* stage() is capped so that the counter stays finite.
MaxStage == 3

\* A name is the sequence of its characters, so that ':' in name is a search.
NamespaceSep == ":"

Names == { <<"g">>, <<"x", ":", "g">> }

Codecs == {"codec1", "codec2"}
Builders == {"builder1", "builder2"}
Messages == {"message1"}
Processors == {"processor1"}

HasSep(name) == \E i \in DOMAIN name : name[i] = NamespaceSep

RegistrationOps == {"register_file_handler", "add_file_handler_missing_message",
                    "register_post_processor", "add_post_processor_missing_message"}

\* __check_preconditions with a frozen threshold that is off by one.
check_preconditions_late_freeze(name, registry) ==
    IF stager > 2 THEN "frozen"
    ELSE IF stager > 0 /\ ~HasSep(name) THEN "naming"
    ELSE IF name \in DOMAIN registry THEN "duplicate"
    ELSE "none"

\* __check_preconditions that asks for the separator only once frozen.
check_preconditions_no_naming(name, registry) ==
    IF stager > 1 THEN "frozen"
    ELSE IF stager > 1 /\ ~HasSep(name) THEN "naming"
    ELSE IF name \in DOMAIN registry THEN "duplicate"
    ELSE "none"

\* __check_preconditions without the duplicate test.
check_preconditions_no_duplicate(name, registry) ==
    IF stager > 1 THEN "frozen"
    ELSE IF stager > 0 /\ ~HasSep(name) THEN "naming"
    ELSE "none"

\* __check_preconditions with the duplicate test moved before the naming test.
check_preconditions_duplicate_first(name, registry) ==
    IF stager > 1 THEN "frozen"
    ELSE IF name \in DOMAIN registry THEN "duplicate"
    ELSE IF stager > 0 /\ ~HasSep(name) THEN "naming"
    ELSE "none"

\* __check_preconditions: the exception it raises, "none" when it returns.
check_preconditions(name, registry) ==
    IF stager > 1 THEN "frozen"
    ELSE IF stager > 0 /\ ~HasSep(name) THEN "naming"
    ELSE IF name \in DOMAIN registry THEN "duplicate"
    ELSE "none"

\* register_file_handler that stores the codec and forgets the builder.
register_file_handler_codec_only(name, codec, builder) ==
    LET e == check_preconditions(name, file_codecs) IN
    /\ lastCall' = [op |-> "register_file_handler", name |-> name]
    /\ raised' = e
    /\ returned' = {}
    /\ IF e = "none"
       THEN file_codecs' = Put(file_codecs, name, codec)
       ELSE UNCHANGED file_codecs
    /\ UNCHANGED <<stager, file_builders, file_handler_exceptions,
                   post_processors, post_processor_exceptions>>
    /\ UNCHANGED <<engVars, gitVars, raceVars>>

register_file_handler(name, codec, builder) ==
    LET e == check_preconditions(name, file_codecs) IN
    /\ lastCall' = [op |-> "register_file_handler", name |-> name]
    /\ raised' = e
    /\ returned' = {}
    /\ IF e = "none"
       THEN /\ file_codecs' = Put(file_codecs, name, codec)
            /\ file_builders' = Put(file_builders, name, builder)
       ELSE UNCHANGED <<file_codecs, file_builders>>
    /\ UNCHANGED <<stager, file_handler_exceptions, post_processors,
                   post_processor_exceptions>>
    /\ UNCHANGED <<engVars, gitVars, raceVars>>

add_file_handler_missing_message(name, message) ==
    LET e == check_preconditions(name, file_handler_exceptions)
        r == IF e # "none" THEN e
             ELSE IF name \in DOMAIN file_codecs THEN "registered"
             ELSE "none"
    IN
    /\ lastCall' = [op |-> "add_file_handler_missing_message", name |-> name]
    /\ raised' = r
    /\ returned' = {}
    /\ IF r = "none"
       THEN file_handler_exceptions' = Put(file_handler_exceptions, name, message)
       ELSE UNCHANGED file_handler_exceptions
    /\ UNCHANGED <<stager, file_codecs, file_builders, post_processors,
                   post_processor_exceptions>>
    /\ UNCHANGED <<engVars, gitVars, raceVars>>

register_post_processor(name, post_processor) ==
    LET e == check_preconditions(name, post_processors) IN
    /\ lastCall' = [op |-> "register_post_processor", name |-> name]
    /\ raised' = e
    /\ returned' = {}
    /\ IF e = "none"
       THEN post_processors' = Put(post_processors, name, post_processor)
       ELSE UNCHANGED post_processors
    /\ UNCHANGED <<stager, file_codecs, file_builders, file_handler_exceptions,
                   post_processor_exceptions>>
    /\ UNCHANGED <<engVars, gitVars, raceVars>>

add_post_processor_missing_message(name, message) ==
    LET e == check_preconditions(name, post_processor_exceptions)
        r == IF e # "none" THEN e
             ELSE IF name \in DOMAIN post_processors THEN "registered"
             ELSE "none"
    IN
    /\ lastCall' = [op |-> "add_post_processor_missing_message", name |-> name]
    /\ raised' = r
    /\ returned' = {}
    /\ IF r = "none"
       THEN post_processor_exceptions' = Put(post_processor_exceptions, name, message)
       ELSE UNCHANGED post_processor_exceptions
    /\ UNCHANGED <<stager, file_codecs, file_builders, file_handler_exceptions,
                   post_processors>>
    /\ UNCHANGED <<engVars, gitVars, raceVars>>

stage ==
    /\ stager < MaxStage
    /\ stager' = stager + 1
    /\ lastCall' = [op |-> "stage", name |-> <<>>]
    /\ raised' = "none"
    /\ returned' = {}
    /\ UNCHANGED registries
    /\ UNCHANGED <<engVars, gitVars, raceVars>>

\* registry[name]: the value, or the mapping's own "not found" error.
lookup(op, registry, name) ==
    /\ lastCall' = [op |-> op, name |-> name]
    /\ IF name \in DOMAIN registry
       THEN raised' = "none" /\ returned' = {registry[name]}
       ELSE raised' = "not_found" /\ returned' = {}
    /\ UNCHANGED <<stager, registries>>
    /\ UNCHANGED <<engVars, gitVars, raceVars>>

get_project_file_codec(name) == lookup("get_project_file_codec", file_codecs, name)

get_project_file_builder(name) == lookup("get_project_file_builder", file_builders, name)

get_post_processor(name) == lookup("get_post_processor", post_processors, name)

get_available_builders ==
    /\ lastCall' = [op |-> "get_available_builders", name |-> <<>>]
    /\ raised' = "none"
    /\ returned' = DOMAIN file_builders
    /\ UNCHANGED <<stager, registries>>
    /\ UNCHANGED <<engVars, gitVars, raceVars>>

InitRegistrar ==
    /\ stager = 0
    /\ file_codecs = EmptyMap
    /\ file_builders = EmptyMap
    /\ file_handler_exceptions = EmptyMap
    /\ post_processors = EmptyMap
    /\ post_processor_exceptions = EmptyMap
    /\ lastCall = [op |-> "__init__", name |-> <<>>]
    /\ raised = "none"
    /\ returned = {}

NextRegistrar ==
    \/ \E name \in Names, codec \in Codecs, builder \in Builders :
           register_file_handler(name, codec, builder)
    \/ \E name \in Names, message \in Messages :
           add_file_handler_missing_message(name, message)
    \/ \E name \in Names, post_processor \in Processors :
           register_post_processor(name, post_processor)
    \/ \E name \in Names, message \in Messages :
           add_post_processor_missing_message(name, message)
    \/ stage
    \/ \E name \in Names : get_project_file_codec(name)
    \/ \E name \in Names : get_project_file_builder(name)
    \/ \E name \in Names : get_post_processor(name)
    \/ get_available_builders

-----------------------------------------------------------------------------
(***************************************************************************)
(*                       THE RECONCILIATION ENGINE                         *)
(*                                                                         *)
(* A directory is [exists, files]; files maps the relative path of each    *)
(* regular file below it to the file's text, a sequence of lines.  The     *)
(* trees hold text files only, and a path names a file in every tree that  *)
(* has it (never a directory in one tree and a file in another).           *)
(***************************************************************************)

\* The longest text of a.txt, in lines.
MaxLines == 1

Lines == {"h", "w"}

Texts == UNION {[1..n -> Lines] : n \in 0..MaxLines}

Paths == {"a.txt", "new.txt"}

\* a.txt holds any text; new.txt, a second and smaller file, one line.
FileTexts(path) == IF path = "a.txt" THEN Texts ELSE {t \in Texts : Len(t) = 1}

PATCH_EXTENSION == "patch"

Absent == [exists |-> FALSE, files |-> EmptyMap]

Dir(files) == [exists |-> TRUE, files |-> files]

\* The patch file of a relative path: os.extsep.join([path, _PATCH_EXTENSION]).
PatchName(path) == <<path, PATCH_EXTENSION>>

\* The relative path of a patch file: its name less the extension and the dot.
RelPath(patch_name) == patch_name[1]

\* ---- project_patcher.workspace.patcher, which the repository's files do
\* ---- not hold: a line diff of one hunk and its application.

CommonPrefix(a, b) ==
    LET same == {n \in 0..Len(a) : n <= Len(b) /\ SubSeq(a, 1, n) = SubSeq(b, 1, n)}
    IN  CHOOSE n \in same : \A m \in same : m <= n

CommonSuffix(a, b, skip) ==
    LET same == {n \in 0..(Len(a) - skip) :
                    /\ n <= Len(b) - skip
                    /\ SubSeq(a, Len(a) - n + 1, Len(a)) = SubSeq(b, Len(b) - n + 1, Len(b))}
    IN  CHOOSE n \in same : \A m \in same : m <= n

\* create_patch(clean, work, filename): empty when the texts are equal, else
\* the hunk that replaces the lines between the common prefix and suffix.
create_patch(clean_text, work_text, filename) ==
    IF clean_text = work_text THEN <<>>
    ELSE LET p == CommonPrefix(clean_text, work_text)
             s == CommonSuffix(clean_text, work_text, p)
         IN  << [file  |-> filename,
                 start |-> p,
                 old   |-> SubSeq(clean_text, p + 1, Len(clean_text) - s),
                 new   |-> SubSeq(work_text, p + 1, Len(work_text) - s)] >>

HunkFits(text, hunk) ==
    /\ hunk.start + Len(hunk.old) <= Len(text)
    /\ SubSeq(text, hunk.start + 1, hunk.start + Len(hunk.old)) = hunk.old

\* apply_patch(text, patch): the patched text, or a failure when the lines the
\* hunk removes are not the text's lines at that place.
apply_patch(text, patch_text) ==
    IF patch_text = <<>> THEN [ok |-> TRUE, text |-> text]
    ELSE LET hunk == patch_text[1] IN
         IF HunkFits(text, hunk)
         THEN [ok |-> TRUE,
               text |-> SubSeq(text, 1, hunk.start) \o hunk.new
                        \o SubSeq(text, hunk.start + Len(hunk.old) + 1, Len(text))]
         ELSE [ok |-> FALSE, text |-> text]

\* ---- project.py

\* Every order in which os.walk may list the files of a directory.
WalkOrders(files) ==
    LET S == DOMAIN files
        n == Cardinality(S)
    IN  {o \in [1..n -> S] : \A i, j \in 1..n : o[i] = o[j] => i = j}

\* shutil.copytree(src, dst, dirs_exist_ok = True): files of src replace
\* same-path files of dst.
copytree(src_files, dst_files) ==
    [p \in (DOMAIN src_files) \cup (DOMAIN dst_files) |->
        IF p \in DOMAIN src_files THEN src_files[p] ELSE dst_files[p]]

\* apply_patches that reports a failed patch and goes on with the walk.
RECURSIVE apply_patches_from_continues(_, _, _, _)
apply_patches_from_continues(work, patches, order, i) ==
    IF i > Len(order) THEN [dir |-> work, status |-> "ok"]
    ELSE LET patch_name == order[i]
             rel_path == RelPath(patch_name)
             fits == /\ work.exists
                     /\ rel_path \in DOMAIN work.files
                     /\ apply_patch(work.files[rel_path], patches.files[patch_name]).ok
             rest == apply_patches_from_continues(
                         IF fits
                         THEN Dir(Put(work.files, rel_path,
                                  apply_patch(work.files[rel_path],
                                              patches.files[patch_name]).text))
                         ELSE work,
                         patches, order, i + 1)
         IN  IF fits THEN rest ELSE [dir |-> rest.dir, status |-> "error"]

\* apply_patches, from the i-th patch file of the walk on: the working
\* directory it leaves and whether it returned.
RECURSIVE apply_patches_from(_, _, _, _)
apply_patches_from(work, patches, order, i) ==
    IF i > Len(order) THEN [dir |-> work, status |-> "ok"]
    ELSE LET patch_name == order[i]
             rel_path == RelPath(patch_name)
         IN  IF ~work.exists \/ rel_path \notin DOMAIN work.files
             THEN [dir |-> work, status |-> "error"]
             ELSE LET work_patch == apply_patch(work.files[rel_path], patches.files[patch_name])
                  IN  IF ~work_patch.ok
                      THEN [dir |-> work, status |-> "error"]
                      ELSE apply_patches_from(
                               Dir(Put(work.files, rel_path, work_patch.text)),
                               patches, order, i + 1)

apply_patches(work, patches, order) == apply_patches_from(work, patches, order, 1)

\* setup_working that creates the working directory but does not remove the
\* one that is there.
setup_working_keeps_old(clean, work, patches, out, order) ==
    LET made == Dir(work.files)
    IN  IF ~clean.exists THEN [dir |-> made, status |-> "error"]
        ELSE LET base == Dir(copytree(clean.files, made.files))
                 over == IF out.exists THEN Dir(copytree(out.files, base.files)) ELSE base
             IN  IF patches.exists THEN apply_patches(over, patches, order)
                 ELSE [dir |-> over, status |-> "ok"]

\* setup_working: the working directory it leaves and whether it returned.
\* The old working directory is removed and an empty one made; the clean
\* tree is copied in (it must exist), then the output tree over it, then
\* the patches are applied.
setup_working(clean, work, patches, out, order) ==
    LET made == Dir(EmptyMap)
    IN  IF ~clean.exists THEN [dir |-> made, status |-> "error"]
        ELSE LET base == Dir(copytree(clean.files, made.files))
                 over == IF out.exists THEN Dir(copytree(out.files, base.files)) ELSE base
             IN  IF patches.exists THEN apply_patches(over, patches, order)
                 ELSE [dir |-> over, status |-> "ok"]

\* generate_patch that diffs the working text against the clean one.
generate_patch_swapped(path, work_text, clean_text, patches) ==
    LET patch_text == create_patch(work_text, clean_text, path)
    IN  IF patch_text # <<>>
        THEN Dir(Put(patches.files, PatchName(path), patch_text))
        ELSE patches

\* generate_patch that writes the artifact whatever the diff holds.
generate_patch_always(path, work_text, clean_text, patches) ==
    Dir(Put(patches.files, PatchName(path), create_patch(clean_text, work_text, path)))

\* generate_patch with its test inverted: it writes only an empty diff.
generate_patch_inverted(path, work_text, clean_text, patches) ==
    LET patch_text == create_patch(clean_text, work_text, path)
    IN  IF patch_text = <<>>
        THEN Dir(Put(patches.files, PatchName(path), patch_text))
        ELSE patches

\* generate_patch: the patch directory after it.
generate_patch(path, work_text, clean_text, patches) ==
    LET patch_text == create_patch(clean_text, work_text, path)
    IN  IF patch_text # <<>>
        THEN Dir(Put(patches.files, PatchName(path), patch_text))
        ELSE patches

\* output_file that makes the directory and copies nothing.
output_file_no_copy(path, work_text, out) == Dir(out.files)

\* output_file: the output directory after it.
output_file(path, work_text, out) == Dir(Put(out.files, path, work_text))

\* The walk of output_working over the working files still to visit.
RECURSIVE output_walk(_, _, _, _, _, _)
output_walk(todo, clean, work, patches, out, seen) ==
    IF todo = {} THEN [patch_dir |-> patches, out_dir |-> out, diffed |-> seen]
    ELSE LET rel_path == CHOOSE p \in todo : TRUE
         IN  IF clean.exists /\ rel_path \in DOMAIN clean.files
             THEN output_walk(todo \ {rel_path}, clean, work,
                      generate_patch(rel_path, work.files[rel_path],
                                     clean.files[rel_path], patches),
                      out, seen \cup {rel_path})
             ELSE output_walk(todo \ {rel_path}, clean, work, patches,
                      output_file(rel_path, work.files[rel_path], out), seen)

\* output_working that does not remove the two directories first.
output_working_keeps_stale(clean, work) ==
    output_walk(DOMAIN work.files, clean, work, patch_dir, out_dir, {})

\* output_working: both directories are removed, then the working tree is walked.
output_working(clean, work) ==
    output_walk(DOMAIN work.files, clean, work, Absent, Absent, {})

Log(op) == <<opLog[2], op>>

OutputWorking ==
    LET r == output_working(clean_dir, working_dir) IN
    /\ patch_dir' = r.patch_dir
    /\ out_dir' = r.out_dir
    /\ diffed' = r.diffed
    /\ opLog' = Log("output_working")
    /\ status' = "ok"
    /\ walked' = <<>>
    /\ UNCHANGED <<clean_dir, working_dir, cleanCall>>
    /\ UNCHANGED <<regVars, gitVars, raceVars>>

\* Patches captured against an earlier clean tree may add their lines to the
\* texts of a later one, so the call is followed only while no text outgrows
\* a text of clean or out plus a patch's lines.
SetupWorking(order) ==
    LET r == setup_working(clean_dir, working_dir, patch_dir, out_dir, order) IN
    /\ \A p \in DOMAIN r.dir.files : Len(r.dir.files[p]) <= MaxLines + MaxLines
    /\ working_dir' = r.dir
    /\ status' = r.status
    /\ opLog' = Log("setup_working")
    /\ walked' = order
    /\ UNCHANGED <<clean_dir, patch_dir, out_dir, diffed, cleanCall>>
    /\ UNCHANGED <<regVars, gitVars, raceVars>>

\* apply_patches called on its own.  Patches that only add lines apply again
\* and again, so the call is followed only while no text outgrows the longest
\* one setup_working can build (a text of clean or out, plus a patch's lines).
ApplyPatches(order) ==
    LET r == apply_patches(working_dir, patch_dir, order) IN
    /\ \A p \in DOMAIN r.dir.files : Len(r.dir.files[p]) <= MaxLines + MaxLines
    /\ working_dir' = r.dir
    /\ status' = r.status
    /\ opLog' = Log("apply_patches")
    /\ walked' = order
    /\ UNCHANGED <<clean_dir, patch_dir, out_dir, diffed, cleanCall>>
    /\ UNCHANGED <<regVars, gitVars, raceVars>>

\* ---- setup_clean

\* ProjectMetadata.setup, which the repository's files do not hold: the
\* provider either builds the project's tree in the clean directory and
\* returns True, or returns False and leaves nothing or an unfinished directory.
ProviderTrees == {f \in [{"a.txt"} -> Texts] : TRUE}

ProviderOutcomes ==
    {[ok |-> TRUE, dir |-> Dir(f)] : f \in ProviderTrees}
        \cup {[ok |-> FALSE, dir |-> d] : d \in {Absent, Dir(EmptyMap)}}

NoCleanCall ==
    [invalidate_cache |-> FALSE, provider_calls |-> 0,
     provider_saw |-> Absent, provider_ok |-> TRUE]

\* setup_clean that removes the clean directory whatever the flag says.
setup_clean_ignores_cache(clean, invalidate_cache, provided) ==
    [dir |-> provided.dir, result |-> provided.ok,
     provider_calls |-> 1, provider_saw |-> Absent]

\* setup_clean that never removes the clean directory.
setup_clean_keeps_cache(clean, invalidate_cache, provided) ==
    IF clean.exists
    THEN [dir |-> clean, result |-> TRUE, provider_calls |-> 0, provider_saw |-> clean]
    ELSE [dir |-> provided.dir, result |-> provided.ok,
          provider_calls |-> 1, provider_saw |-> clean]

\* setup_clean: the clean directory it leaves, the value it returns, how many
\* times it called metadata.setup and the directory that call found.
setup_clean(clean, invalidate_cache, provided) ==
    LET kept == IF invalidate_cache /\ clean.exists THEN Absent ELSE clean
    IN  IF kept.exists
        THEN [dir |-> kept, result |-> TRUE, provider_calls |-> 0, provider_saw |-> kept]
        ELSE [dir |-> provided.dir, result |-> provided.ok,
              provider_calls |-> 1, provider_saw |-> kept]

SetupClean(invalidate_cache, provided) ==
    LET r == setup_clean(clean_dir, invalidate_cache, provided) IN
    /\ clean_dir' = r.dir
    /\ status' = IF r.result THEN "ok" ELSE "false"
    /\ cleanCall' = [invalidate_cache |-> invalidate_cache,
                     provider_calls |-> r.provider_calls,
                     provider_saw |-> r.provider_saw,
                     provider_ok |-> IF r.provider_calls = 0 THEN TRUE ELSE provided.ok]
    /\ opLog' = Log("setup_clean")
    /\ walked' = <<>>
    /\ UNCHANGED <<working_dir, patch_dir, out_dir, diffed>>
    /\ UNCHANGED <<regVars, gitVars, raceVars>>

\* ---- the directories a run may start from

Trees == UNION {{f \in [S -> Texts] : \A p \in S : f[p] \in FileTexts(p)} : S \in SUBSET Paths}

Dirs == {Absent} \cup {Dir(f) : f \in Trees}

PatchesFor(path) ==
    {create_patch(a, b, path) : a \in FileTexts(path), b \in FileTexts(path)} \ {<<>>}

PatchTrees ==
    UNION {{f \in [{PatchName(p) : p \in S} -> UNION {PatchesFor(p) : p \in Paths}] :
                \A p \in S : f[PatchName(p)] \in PatchesFor(p)} : S \in SUBSET Paths}

PatchDirs == {Absent} \cup {Dir(f) : f \in PatchTrees}

\* What an earlier capture of another working tree left behind.
StaleOut == Dir([p \in Paths |-> <<"w">>])

StalePatches == Dir([n \in {PatchName(p) : p \in Paths} |-> create_patch(<<"h">>, <<"w">>, RelPath(n))])

StaleWorking == Dir([p \in Paths |-> <<"w">>])

InitEngine ==
    /\ clean_dir \in Dirs
    /\ \/ /\ working_dir \in Dirs
          /\ out_dir \in {Absent, StaleOut}
          /\ patch_dir \in {Absent, StalePatches}
       \/ /\ working_dir = StaleWorking
          /\ out_dir \in Dirs
          /\ patch_dir \in PatchDirs
    /\ opLog = <<"none", "none">>
    /\ status = "ok"
    /\ diffed = {}
    /\ walked = <<>>
    /\ cleanCall = NoCleanCall

NextEngine ==
    \/ OutputWorking
    \/ \E order \in WalkOrders(patch_dir.files) : SetupWorking(order)
    \/ \E order \in WalkOrders(patch_dir.files) : ApplyPatches(order)

\* A workspace whose clean directory is absent or was built by the provider.
InitClean ==
    /\ clean_dir \in {Absent} \cup {Dir(f) : f \in ProviderTrees}
    /\ working_dir \in {Absent, StaleWorking}
    /\ out_dir \in {Absent, StaleOut}
    /\ patch_dir \in {Absent, StalePatches}
    /\ opLog = <<"none", "none">>
    /\ status = "ok"
    /\ diffed = {}
    /\ walked = <<>>
    /\ cleanCall = NoCleanCall

NextClean ==
    \/ \E invalidate_cache \in BOOLEAN, provided \in ProviderOutcomes :
          SetupClean(invalidate_cache, provided)
    \/ OutputWorking
    \/ \E order \in WalkOrders(patch_dir.files) : SetupWorking(order)
    \/ \E order \in WalkOrders(patch_dir.files) : ApplyPatches(order)

-----------------------------------------------------------------------------
(***************************************************************************)
(*                     THE GIT PROJECT FILE CODEC                          *)
(*                                                                         *)
(* A GitProjectFile is its repository, branch and branch_type (the dir of  *)
(* the base class is passed through and left out); a document is a         *)
(* function from keys to values.                                           *)
(***************************************************************************)

VALID_BRANCH_TYPES == {"branch", "commit", "tag"}

\* Python's None.
None == "None"

Repositories == {"repo1", "repo2"}

Refs == {"main", "v1"}

\* GitProjectFile.__init__; the callers below pass a valid branch_type.
GitProjectFile(repository, branch, branch_type) ==
    [repository |-> repository, branch |-> branch, branch_type |-> branch_type]

GitProjectFiles ==
    {GitProjectFile(r, b, t) : r \in Repositories, b \in Refs \cup {None},
                               t \in VALID_BRANCH_TYPES}

\* get_default(GitProjectFile, 'branch') of project_patcher.utils, which the
\* repository's files do not hold: the default the constructor declares.
get_default_branch == None

\* encode_type that writes the branch under the key 'branch' whatever
\* branch_type says.
encode_type_fixed_key(obj, dict_obj) ==
    LET d == Put(dict_obj, "repository", obj.repository)
    IN  IF obj.branch # get_default_branch
        THEN Put(d, "branch", obj.branch)
        ELSE d

encode_type(obj, dict_obj) ==
    LET d == Put(dict_obj, "repository", obj.repository)
    IN  IF obj.branch # get_default_branch
        THEN Put(d, obj.branch_type, obj.branch)
        ELSE d

\* _VALID_BRANCH_TYPES is a set of strings: the order of its iteration is
\* the one the string hashes of the running interpreter give, any of these.
IterationOrders ==
    {o \in [1..3 -> VALID_BRANCH_TYPES] : \A i, j \in 1..3 : o[i] = o[j] => i = j}

\* decode_type: the loop returns at the first key of the iteration that the
\* document has.
decode_type(obj, order) ==
    LET hits == {i \in DOMAIN order : order[i] \in DOMAIN obj}
    IN  IF hits = {}
        THEN GitProjectFile(obj["repository"], None, "branch")
        ELSE LET first == CHOOSE i \in hits : \A j \in hits : i <= j
                 branch_name == order[first]
             IN  GitProjectFile(obj["repository"], obj[branch_name], branch_name)

\* The documents decode_type may be given: a repository and any of the keys.
Documents ==
    UNION {{d \in [S \cup {"repository"} -> Repositories \cup Refs] :
               /\ d["repository"] \in Repositories
               /\ \A k \in S : d[k] \in Refs} : S \in SUBSET VALID_BRANCH_TYPES}

NoGitFile == GitProjectFile("none", None, "none")

GitLog(op) == <<gitLog[2], op>>

EncodeType ==
    /\ git_doc' = encode_type(git_file, EmptyMap)
    /\ gitLog' = GitLog("encode_type")
    /\ UNCHANGED <<iter_order, git_file, git_decoded>>
    /\ UNCHANGED <<regVars, engVars, raceVars>>

DecodeType ==
    /\ git_decoded' = decode_type(git_doc, iter_order)
    /\ gitLog' = GitLog("decode_type")
    /\ UNCHANGED <<iter_order, git_file, git_doc>>
    /\ UNCHANGED <<regVars, engVars, raceVars>>

InitGit ==
    /\ iter_order \in IterationOrders
    /\ git_file \in GitProjectFiles
    /\ git_doc \in Documents
    /\ git_decoded = NoGitFile
    /\ gitLog = <<"none", "none">>

NextGit ==
    \/ EncodeType
    \/ DecodeType

IdleGit ==
    /\ iter_order = <<"branch", "commit", "tag">>
    /\ git_file = NoGitFile
    /\ git_doc = EmptyMap
    /\ git_decoded = NoGitFile
    /\ gitLog = <<"none", "none">>

IdleRace == procs = <<>>

-----------------------------------------------------------------------------
(***************************************************************************)
(*        setup_working AND output_working AS TWO PROCESSES                *)
(*                                                                         *)
(* "rebuild" runs setup_working and "capture" runs output_working on the   *)
(* same four directories.  A step is one rmtree, makedirs, copytree, the   *)
(* listing of a directory by os.walk, or the work on one file.             *)
(***************************************************************************)

\* shutil.rmtree that leaves the directory where it is.
rmtree_keeps(dir) == dir

\* shutil.rmtree.
rmtree(dir) == Absent

Other(p) == IF p = "rebuild" THEN "capture" ELSE "rebuild"

\* The process has taken a step and has not ended.
InFlight(p) == procs[p].pc \notin {"start", "done", "failed"}

\* Process p moves on; the passes overlap when the other one is under way.
Goto(p, pc, todo) ==
    procs' = [procs EXCEPT ![p] = [pc |-> pc, todo |-> todo],
                           !.overlapped = @ \/ InFlight(Other(p))]

RaceFrame ==
    /\ UNCHANGED <<opLog, status, diffed, walked, cleanCall>>
    /\ UNCHANGED <<regVars, gitVars>>

\* project.py:208-209
RebuildRmtree ==
    /\ procs.rebuild.pc = "start"
    /\ working_dir' = IF working_dir.exists THEN rmtree(working_dir) ELSE working_dir
    /\ Goto("rebuild", "makedirs", <<>>)
    /\ UNCHANGED <<clean_dir, patch_dir, out_dir>>
    /\ RaceFrame

\* project.py:212; os.makedirs raises when the directory is there.
RebuildMakedirs ==
    /\ procs.rebuild.pc = "makedirs"
    /\ IF working_dir.exists
       THEN UNCHANGED working_dir /\ Goto("rebuild", "failed", <<>>)
       ELSE working_dir' = Dir(EmptyMap) /\ Goto("rebuild", "copy_clean", <<>>)
    /\ UNCHANGED <<clean_dir, patch_dir, out_dir>>
    /\ RaceFrame

\* project.py:215; the clean directory must exist.
RebuildCopyClean ==
    /\ procs.rebuild.pc = "copy_clean"
    /\ IF clean_dir.exists
       THEN /\ working_dir' = Dir(copytree(clean_dir.files, working_dir.files))
            /\ Goto("rebuild", "copy_out", <<>>)
       ELSE UNCHANGED working_dir /\ Goto("rebuild", "failed", <<>>)
    /\ UNCHANGED <<clean_dir, patch_dir, out_dir>>
    /\ RaceFrame

\* project.py:218-219
RebuildCopyOut ==
    /\ procs.rebuild.pc = "copy_out"
    /\ working_dir' = IF out_dir.exists
                      THEN Dir(copytree(out_dir.files, working_dir.files))
                      ELSE working_dir
    /\ Goto("rebuild", "walk", <<>>)
    /\ UNCHANGED <<clean_dir, patch_dir, out_dir>>
    /\ RaceFrame

\* project.py:222-224 and 167: the patch files os.walk lists, in its order.
RebuildWalk ==
    /\ procs.rebuild.pc = "walk"
    /\ IF patch_dir.exists
       THEN \E order \in WalkOrders(patch_dir.files) :
               Goto("rebuild", IF order = <<>> THEN "done" ELSE "patching", order)
       ELSE Goto("rebuild", "done", <<>>)
    /\ UNCHANGED dirVars
    /\ RaceFrame

\* project.py:168-181, one patch file: the open of a file that is no longer
\* there raises, and so does a patch that does not apply.
RebuildApply ==
    /\ procs.rebuild.pc = "patching"
    /\ LET todo == procs.rebuild.todo
           patch_name == Head(todo)
           rel_path == RelPath(patch_name)
       IN  IF \/ patch_name \notin DOMAIN patch_dir.files
              \/ rel_path \notin DOMAIN working_dir.files
              \/ ~apply_patch(working_dir.files[rel_path],
                              patch_dir.files[patch_name]).ok
           THEN UNCHANGED working_dir /\ Goto("rebuild", "failed", <<>>)
           ELSE /\ working_dir' =
                      Dir(Put(working_dir.files, rel_path,
                              apply_patch(working_dir.files[rel_path],
                                          patch_dir.files[patch_name]).text))
                /\ Goto("rebuild", IF Tail(todo) = <<>> THEN "done" ELSE "patching",
                        Tail(todo))
    /\ UNCHANGED <<clean_dir, patch_dir, out_dir>>
    /\ RaceFrame

\* project.py:317-318
CaptureRmtreeOut ==
    /\ procs.capture.pc = "start"
    /\ out_dir' = IF out_dir.exists THEN rmtree(out_dir) ELSE out_dir
    /\ Goto("capture", "rmtree_patch", {})
    /\ UNCHANGED <<clean_dir, working_dir, patch_dir>>
    /\ RaceFrame

\* project.py:319-320
CaptureRmtreePatch ==
    /\ procs.capture.pc = "rmtree_patch"
    /\ patch_dir' = IF patch_dir.exists THEN rmtree(patch_dir) ELSE patch_dir
    /\ Goto("capture", "walk", {})
    /\ UNCHANGED <<clean_dir, working_dir, out_dir>>
    /\ RaceFrame

\* project.py:322: the working files os.walk lists.
CaptureWalk ==
    /\ procs.capture.pc = "walk"
    /\ Goto("capture",
            IF DOMAIN working_dir.files = {} THEN "done" ELSE "capturing",
            DOMAIN working_dir.files)
    /\ UNCHANGED dirVars
    /\ RaceFrame

\* project.py:323-336, one listed file: generate_patch when clean has the
\* path, output_file otherwise; both open the working file, which raises
\* when the file is no longer there.
CaptureFile ==
    /\ procs.capture.pc = "capturing"
    /\ \E rel_path \in procs.capture.todo :
          LET rest == procs.capture.todo \ {rel_path} IN
          IF rel_path \notin DOMAIN working_dir.files
          THEN UNCHANGED <<patch_dir, out_dir>> /\ Goto("capture", "failed", {})
          ELSE /\ IF clean_dir.exists /\ rel_path \in DOMAIN clean_dir.files
                  THEN /\ patch_dir' = generate_patch(rel_path,
                                            working_dir.files[rel_path],
                                            clean_dir.files[rel_path], patch_dir)
                       /\ UNCHANGED out_dir
                  ELSE /\ out_dir' = output_file(rel_path,
                                          working_dir.files[rel_path], out_dir)
                       /\ UNCHANGED patch_dir
               /\ Goto("capture", IF rest = {} THEN "done" ELSE "capturing", rest)
    /\ UNCHANGED <<clean_dir, working_dir>>
    /\ RaceFrame

\* A workspace with a clean tree the provider built, whose patch and output
\* directories are those of a capture of the working tree, or older ones.
InitRace ==
    /\ clean_dir \in {Dir(f) : f \in ProviderTrees}
    /\ working_dir \in Dirs
    /\ \/ /\ patch_dir = output_working(clean_dir, working_dir).patch_dir
          /\ out_dir = output_working(clean_dir, working_dir).out_dir
       \/ /\ patch_dir \in {Absent, StalePatches}
          /\ out_dir \in {Absent, StaleOut}
    /\ opLog = <<"none", "none">>
    /\ status = "ok"
    /\ diffed = {}
    /\ walked = <<>>
    /\ cleanCall = NoCleanCall
    /\ procs = [rebuild |-> [pc |-> "start", todo |-> <<>>],
                capture |-> [pc |-> "start", todo |-> {}],
                overlapped |-> FALSE,
                start |-> [clean |-> clean_dir, working |-> working_dir,
                           patch |-> patch_dir, out |-> out_dir]]

NextRace ==
    \/ RebuildRmtree
    \/ RebuildMakedirs
    \/ RebuildCopyClean
    \/ RebuildCopyOut
    \/ RebuildWalk
    \/ RebuildApply
    \/ CaptureRmtreeOut
    \/ CaptureRmtreePatch
    \/ CaptureWalk
    \/ CaptureFile

\* ---- the specifications

IdleEngine ==
    /\ clean_dir = Absent
    /\ working_dir = Absent
    /\ patch_dir = Absent
    /\ out_dir = Absent
    /\ opLog = <<"none", "none">>
    /\ status = "ok"
    /\ diffed = {}
    /\ walked = <<>>
    /\ cleanCall = NoCleanCall

RegistrarStart == InitRegistrar /\ IdleEngine /\ IdleGit /\ IdleRace

EngineStart == InitRegistrar /\ InitEngine /\ IdleGit /\ IdleRace

SpecRegistrar == RegistrarStart /\ [][NextRegistrar]_vars

SpecEngine == EngineStart /\ [][NextEngine]_vars

CleanStart == InitRegistrar /\ InitClean /\ IdleGit /\ IdleRace

SpecClean == CleanStart /\ [][NextClean]_vars

GitStart == InitRegistrar /\ IdleEngine /\ InitGit /\ IdleRace

SpecGit == GitStart /\ [][NextGit]_vars

RaceStart == InitRegistrar /\ IdleGit /\ InitRace

SpecRace == RaceStart /\ [][NextRace]_vars

-----------------------------------------------------------------------------
(***************************************************************************)
(*                     CLAIMS ABOUT THE REGISTRAR                          *)
(***************************************************************************)

\* C1: once stage() has been called at least twice (counter >= 2), every
\* registration call, for any name, raises the frozen-registry error and
\* leaves the five registries unchanged; the counter is changed by stage()
\* alone and never decreases, so this stays true after further stage() calls.
C1_FrozenRejectsAll ==
    [][ /\ stager' >= stager
        /\ (stager' # stager => lastCall'.op = "stage")
        /\ (stager >= 2 /\ lastCall'.op \in RegistrationOps)
              => (raised' = "frozen" /\ UNCHANGED registries) ]_vars

C1_Witness ==
    /\ stager > 2
    /\ lastCall.op \in RegistrationOps
    /\ raised = "frozen"

NoSepNames(registry) == {n \in DOMAIN registry : ~HasSep(n)}

\* C2: at counter 1 each registration call whose name has no ':' raises the
\* naming error and stores nothing; and from counter 1 on no registry gains a
\* name without ':', so every such name was registered at counter 0.
C2_NamingAfterFirstStage ==
    [][ /\ (stager = 1 /\ lastCall'.op \in RegistrationOps
                       /\ ~HasSep(lastCall'.name))
              => (raised' = "naming" /\ UNCHANGED registries)
        /\ stager >= 1 =>
              /\ NoSepNames(file_codecs') \subseteq NoSepNames(file_codecs)
              /\ NoSepNames(file_builders') \subseteq NoSepNames(file_builders)
              /\ NoSepNames(file_handler_exceptions')
                    \subseteq NoSepNames(file_handler_exceptions)
              /\ NoSepNames(post_processors') \subseteq NoSepNames(post_processors)
              /\ NoSepNames(post_processor_exceptions')
                    \subseteq NoSepNames(post_processor_exceptions) ]_vars

C2_Witness ==
    /\ stager = 1
    /\ lastCall.op \in RegistrationOps
    /\ ~HasSep(lastCall.name)
    /\ raised = "naming"
    /\ NoSepNames(file_codecs) # {}

\* C3: register_file_handler called with a name that already holds a provider,
\* while the registrar is not frozen and the name satisfies the naming rule of
\* the stage, raises the duplicate error and leaves the codec and the builder
\* of the first call in place.
C3_DuplicateProviderRejected ==
    [][ ( /\ lastCall'.op = "register_file_handler"
          /\ lastCall'.name \in DOMAIN file_codecs
          /\ stager <= 1
          /\ (stager = 0 \/ HasSep(lastCall'.name)) )
        => ( /\ raised' = "duplicate"
             /\ file_codecs' = file_codecs
             /\ file_builders' = file_builders ) ]_vars

C3_Witness ==
    /\ lastCall.op = "register_file_handler"
    /\ raised = "duplicate"
    /\ stager = 1
    /\ lastCall.name \in DOMAIN file_codecs
    /\ lastCall.name \in DOMAIN file_builders

\* C4: in every reachable state no name is in both file_codecs and
\* file_handler_exceptions, and no name is in both post_processors and
\* post_processor_exceptions (mutual exclusion in either order).
C4_MutualExclusion ==
    /\ (DOMAIN file_codecs) \cap (DOMAIN file_handler_exceptions) = {}
    /\ (DOMAIN post_processors) \cap (DOMAIN post_processor_exceptions) = {}

-----------------------------------------------------------------------------
(***************************************************************************)
(*                       CLAIMS ABOUT THE ENGINE                           *)
(***************************************************************************)

Captured == opLog[2] = "output_working"

InBoth(path) ==
    /\ clean_dir.exists /\ path \in DOMAIN clean_dir.files
    /\ working_dir.exists /\ path \in DOMAIN working_dir.files

\* C5: for a clean tree and a working tree, output_working followed by
\* setup_working on the same four directories returns and leaves a working
\* directory with exactly the files and the contents that were captured.
C5_ClosedLoop ==
    [][ ( /\ Captured
          /\ clean_dir.exists
          /\ working_dir.exists
          /\ opLog'[2] = "setup_working" )
        => ( /\ status' = "ok"
             /\ working_dir'.exists
             /\ working_dir'.files = working_dir.files ) ]_vars

\* C5 without removals: when every clean file is still in the working tree
\* (files edited or added only), output_working followed by setup_working
\* does rebuild the captured working tree.
C5_ClosedLoopWithoutRemoval ==
    [][ ( /\ Captured
          /\ clean_dir.exists
          /\ working_dir.exists
          /\ DOMAIN clean_dir.files \subseteq DOMAIN working_dir.files
          /\ opLog'[2] = "setup_working" )
        => ( /\ status' = "ok"
             /\ working_dir'.exists
             /\ working_dir'.files = working_dir.files ) ]_vars

\* The patch directory cut down to the artifact of one path.
ArtifactOf(path) ==
    Dir([n \in {PatchName(path)} \cap DOMAIN patch_dir.files |-> patch_dir.files[n]])

OnlyFile(path, text) == Dir([p \in {path} |-> text])

\* C6: for every path in both clean (text A) and working (text B), the
\* artifact generate_patch wrote for it, applied by apply_patches to a working
\* file of that path holding A, overwrites the file with B; and when A = B
\* there is no artifact and the file stays A.
C6_PatchRoundTrip ==
    Captured =>
        \A path \in Paths : InBoth(path) =>
            LET A == clean_dir.files[path]
                B == working_dir.files[path]
                artifact == ArtifactOf(path)
            IN  /\ (A = B) <=> (artifact.files = EmptyMap)
                /\ \A order \in WalkOrders(artifact.files) :
                      LET r == apply_patches(OnlyFile(path, A), artifact, order)
                      IN  r.status = "ok" /\ r.dir = OnlyFile(path, B)

C6_Witness ==
    /\ Captured
    /\ InBoth("a.txt")
    /\ clean_dir.files["a.txt"] = <<"h">>
    /\ working_dir.files["a.txt"] = <<"w">>
    /\ PatchName("a.txt") \in DOMAIN patch_dir.files
    /\ apply_patch(<<"h">>, patch_dir.files[PatchName("a.txt")]).text = <<"w">>

\* C7: a working file whose text is the clean file's text at the same path
\* leaves no patch artifact and no output file; and when the working tree has
\* the files and contents of the clean tree, output_working, run any number
\* of times, leaves the patch and the output directory without any file.
C7_NoOpRule ==
    Captured =>
        /\ \A path \in Paths :
              (InBoth(path) /\ clean_dir.files[path] = working_dir.files[path])
                 => /\ PatchName(path) \notin DOMAIN patch_dir.files
                    /\ path \notin DOMAIN out_dir.files
        /\ (clean_dir.exists /\ working_dir.exists
               /\ clean_dir.files = working_dir.files)
              => (patch_dir.files = EmptyMap /\ out_dir.files = EmptyMap)

C7_Witness ==
    /\ opLog = <<"output_working", "output_working">>
    /\ clean_dir.exists /\ working_dir.exists
    /\ clean_dir.files = working_dir.files
    /\ DOMAIN clean_dir.files = Paths
    /\ patch_dir = Absent
    /\ out_dir = Absent

EditedTwiceCaptured(path) ==
    /\ opLog = <<"output_working", "output_working">>
    /\ InBoth(path)
    /\ clean_dir.files[path] # working_dir.files[path]

\* C8 as claimed: after a first output_working that wrote a patch artifact for
\* the edited a.txt, a second output_working with no edit in between leaves an
\* empty patch directory.
C8_SecondCaptureEmpty ==
    EditedTwiceCaptured("a.txt") => patch_dir.files = EmptyMap

\* C8 as amended: after a first output_working that wrote a patch artifact for
\* the edited a.txt, a second output_working with no edit in between writes
\* the artifact of a.txt again: the patch directory holds a.txt.patch, which
\* turns clean's a.txt into working's a.txt.
C8_SecondCaptureRepeats ==
    EditedTwiceCaptured("a.txt") =>
        /\ patch_dir.exists
        /\ PatchName("a.txt") \in DOMAIN patch_dir.files
        /\ LET r == apply_patch(clean_dir.files["a.txt"],
                                patch_dir.files[PatchName("a.txt")])
           IN  r.ok /\ r.text = working_dir.files["a.txt"]

C8_Witness ==
    /\ EditedTwiceCaptured("a.txt")
    /\ PatchName("a.txt") \in DOMAIN patch_dir.files

IsNew(path) ==
    /\ working_dir.exists /\ path \in DOMAIN working_dir.files
    /\ ~(clean_dir.exists /\ path \in DOMAIN clean_dir.files)

\* C9: every file of the working directory whose path has no file in the
\* clean directory is copied unchanged to the same path of the output
\* directory, is not given to generate_patch, and gets no patch artifact.
C9_NewFileClassification ==
    Captured =>
        \A path \in Paths : IsNew(path) =>
            /\ out_dir.exists
            /\ path \in DOMAIN out_dir.files
            /\ out_dir.files[path] = working_dir.files[path]
            /\ path \notin diffed
            /\ PatchName(path) \notin DOMAIN patch_dir.files

C9_Witness ==
    /\ Captured
    /\ IsNew("new.txt")
    /\ InBoth("a.txt")
    /\ "a.txt" \in diffed
    /\ out_dir.files = [p \in {"new.txt"} |-> working_dir.files["new.txt"]]

\* What clean and out alone put at a path of the working directory.
LayeredText(path) ==
    IF out_dir.exists /\ path \in DOMAIN out_dir.files
    THEN out_dir.files[path]
    ELSE clean_dir.files[path]

HasArtifact(path) == patch_dir.exists /\ PatchName(path) \in DOMAIN patch_dir.files

\* C10: after a setup_working that returned, the working directory holds
\* exactly the paths of clean and of out, each with out's text when out has
\* the path and clean's otherwise, with the patch of the patch directory for
\* that path applied on top; nothing of the old working directory is left.
C10_WorkingIsDerived ==
    (opLog[2] = "setup_working" /\ status = "ok") =>
        /\ clean_dir.exists
        /\ working_dir.exists
        /\ DOMAIN working_dir.files =
              (DOMAIN clean_dir.files) \cup (DOMAIN out_dir.files)
        /\ \A path \in DOMAIN working_dir.files :
              IF HasArtifact(path)
              THEN LET r == apply_patch(LayeredText(path),
                                        patch_dir.files[PatchName(path)])
                   IN  r.ok /\ working_dir.files[path] = r.text
              ELSE working_dir.files[path] = LayeredText(path)
        /\ \A path \in Paths :
              HasArtifact(path) => path \in DOMAIN working_dir.files

C10_Witness ==
    /\ opLog[2] = "setup_working"
    /\ status = "ok"
    /\ out_dir.exists /\ "a.txt" \in DOMAIN out_dir.files
    /\ clean_dir.exists /\ "a.txt" \in DOMAIN clean_dir.files
    /\ clean_dir.files["a.txt"] # out_dir.files["a.txt"]
    /\ HasArtifact("a.txt")
    /\ working_dir.files["a.txt"] # out_dir.files["a.txt"]
    /\ "new.txt" \notin DOMAIN working_dir.files

-----------------------------------------------------------------------------
(***************************************************************************)
(*            CLAIMS ABOUT THE REGISTRAR: ATOMICITY, LOOKUP, ERRORS        *)
(***************************************************************************)

\* C14: each register_file_handler call either stores both the codec and the
\* builder under the name or fails and leaves both registries unchanged; so
\* in every reachable state file_codecs and file_builders hold the same names.
C14_ProviderAtomic ==
    /\ DOMAIN file_codecs = DOMAIN file_builders
    /\ [][ /\ DOMAIN file_codecs' = DOMAIN file_builders'
           /\ lastCall'.op = "register_file_handler" =>
                 \/ /\ raised' = "none"
                    /\ lastCall'.name \in (DOMAIN file_codecs') \ (DOMAIN file_codecs)
                    /\ lastCall'.name \in (DOMAIN file_builders') \ (DOMAIN file_builders)
                 \/ /\ raised' # "none"
                    /\ file_codecs' = file_codecs
                    /\ file_builders' = file_builders ]_vars

C14_Witness ==
    /\ lastCall.op = "register_file_handler"
    /\ raised = "duplicate"
    /\ DOMAIN file_codecs = Names
    /\ DOMAIN file_builders = Names

LookupOps == {"get_project_file_codec", "get_project_file_builder",
              "get_post_processor"}

\* The registry a lookup reads, and the "missing" message registry beside it.
Concrete(op) ==
    CASE op = "get_project_file_codec" -> file_codecs
      [] op = "get_project_file_builder" -> file_builders
      [] op = "get_post_processor" -> post_processors

MissingMessages(op) ==
    IF op = "get_post_processor" THEN post_processor_exceptions
    ELSE file_handler_exceptions

\* C15: a lookup of a name with no concrete registration changes no registry
\* and fails with the message registered under that name in the "missing"
\* message registry, and with the generic "not found" error only when no
\* message is registered.
C15_MissingMessageFirst ==
    [][ ( /\ lastCall'.op \in LookupOps
          /\ lastCall'.name \notin DOMAIN Concrete(lastCall'.op) )
        => ( /\ UNCHANGED registries
             /\ IF lastCall'.name \in DOMAIN MissingMessages(lastCall'.op)
                THEN raised' = MissingMessages(lastCall'.op)[lastCall'.name]
                ELSE raised' = "not_found" ) ]_vars

\* The registry a registration call writes.
Target(op) ==
    CASE op = "register_file_handler" -> file_codecs
      [] op = "add_file_handler_missing_message" -> file_handler_exceptions
      [] op = "register_post_processor" -> post_processors
      [] op = "add_post_processor_missing_message" -> post_processor_exceptions

\* The registry a "missing" message operation must not overlap.
Excluded(op) ==
    CASE op = "add_file_handler_missing_message" -> file_codecs
      [] op = "add_post_processor_missing_message" -> post_processors
      [] OTHER -> EmptyMap

\* C17: a registration call reports the first error of the list frozen
\* (counter > 1), naming (counter > 0 and no ':' in the name), duplicate (name
\* in the target registry), mutual exclusion ("missing" message for a
\* registered name), and nothing else; a call that fails stores nothing.
C17_ErrorPriority ==
    [][ lastCall'.op \in RegistrationOps =>
          LET op == lastCall'.op
              name == lastCall'.name
          IN /\ raised' =
                   IF stager > 1 THEN "frozen"
                   ELSE IF stager > 0 /\ ~HasSep(name) THEN "naming"
                   ELSE IF name \in DOMAIN Target(op) THEN "duplicate"
                   ELSE IF name \in DOMAIN Excluded(op) THEN "registered"
                   ELSE "none"
             /\ raised' # "none" => UNCHANGED registries ]_vars

\* At counter 1, a name without ':' registered at counter 0 is registered
\* again: the naming error, not the duplicate error.
C17_Witness ==
    /\ stager = 1
    /\ lastCall.op = "register_file_handler"
    /\ ~HasSep(lastCall.name)
    /\ lastCall.name \in DOMAIN file_codecs
    /\ raised = "naming"

-----------------------------------------------------------------------------
(***************************************************************************)
(*        CLAIMS ABOUT THE ENGINE: THE CLEAN CACHE, ABORTS, CAPTURE        *)
(***************************************************************************)

\* C11: setup_clean calls the provider exactly when the clean directory does
\* not exist after the optional removal, and then once: with the flag unset
\* and a clean directory present it returns True, calls no provider and
\* leaves the directory as it was; with the flag set the provider is called,
\* on a directory that has been removed; what the provider returns is what
\* setup_clean returns.
C11_CleanCache ==
    [][ opLog'[2] = "setup_clean" =>
          LET hit == clean_dir.exists /\ ~cleanCall'.invalidate_cache IN
          /\ cleanCall'.provider_calls = IF hit THEN 0 ELSE 1
          /\ hit => (status' = "ok" /\ clean_dir' = clean_dir)
          /\ cleanCall'.invalidate_cache =>
                (cleanCall'.provider_calls = 1 /\ cleanCall'.provider_saw = Absent)
          /\ ~hit => /\ ~cleanCall'.provider_saw.exists
                     /\ status' = IF cleanCall'.provider_ok THEN "ok" ELSE "false" ]_vars

\* A clean directory that was there has been removed and the provider, called
\* once, has failed.
C11_Witness ==
    /\ opLog = <<"setup_clean", "setup_clean">>
    /\ cleanCall.invalidate_cache
    /\ cleanCall.provider_calls = 1
    /\ status = "false"
    /\ ~clean_dir.exists

\* C12: setup_working, apply_patches and output_working leave the clean
\* directory as it is; a step that changes it is a setup_clean called with
\* the flag set or on an absent clean directory.
C12_CleanFrame ==
    [][ /\ opLog'[2] \in {"setup_working", "apply_patches", "output_working"}
              => clean_dir' = clean_dir
        /\ clean_dir' # clean_dir
              => /\ opLog'[2] = "setup_clean"
                 /\ cleanCall'.invalidate_cache \/ ~clean_dir.exists ]_vars

\* A capture and a rebuild have run on a clean tree the provider built, and
\* the tree is still there.
C12_Witness ==
    /\ opLog = <<"output_working", "setup_working">>
    /\ cleanCall.provider_calls = 1
    /\ cleanCall.provider_ok
    /\ clean_dir.exists
    /\ patch_dir.exists
    /\ status = "ok"

\* The tree setup_working has copied together when it starts on the patches.
Overlaid ==
    Dir([p \in (DOMAIN clean_dir.files) \cup (DOMAIN out_dir.files) |->
            LayeredText(p)])

\* C16: when a patch of the walk does not apply, or its target file is not in
\* the working directory, apply_patches raises there: the files of the
\* patches walked before it hold their patched text, every other file
\* (the failing one and those of later patches) holds the text it had, and
\* the same holds of the directory a failed setup_working leaves; a walk
\* that returns had no failing patch.
C16_AbortKeepsEarlier ==
    [][ ( /\ opLog'[2] \in {"apply_patches", "setup_working"}
          /\ opLog'[2] = "setup_working" => clean_dir.exists )
        => LET before == IF opLog'[2] = "apply_patches" THEN working_dir ELSE Overlaid
               Patched(n) == apply_patch(before.files[RelPath(n)], patch_dir.files[n])
               Fails(n) == RelPath(n) \notin DOMAIN before.files \/ ~Patched(n).ok
           IN  /\ status' = "ok" => \A i \in DOMAIN walked' : ~Fails(walked'[i])
               /\ status' = "error" =>
                     \E k \in DOMAIN walked' :
                        /\ Fails(walked'[k])
                        /\ \A i \in 1..(k - 1) : ~Fails(walked'[i])
                        /\ DOMAIN working_dir'.files = DOMAIN before.files
                        /\ \A p \in DOMAIN before.files :
                              working_dir'.files[p] =
                                 IF \E i \in 1..(k - 1) : RelPath(walked'[i]) = p
                                 THEN Patched(PatchName(p)).text
                                 ELSE before.files[p] ]_vars

\* A rebuild has patched the first file of its walk and failed on the second.
C16_Witness ==
    /\ opLog[2] = "setup_working"
    /\ status = "error"
    /\ clean_dir.exists
    /\ Len(walked) = 2
    /\ RelPath(walked[1]) \in DOMAIN working_dir.files
    /\ working_dir.files[RelPath(walked[1])] # Overlaid.files[RelPath(walked[1])]
    /\ RelPath(walked[2]) \in DOMAIN working_dir.files

\* The working files that clean has with another text, and those it lacks.
Edited == {p \in (DOMAIN working_dir.files) \cap (DOMAIN clean_dir.files) :
              working_dir.files[p] # clean_dir.files[p]}

Added == (DOMAIN working_dir.files) \ (DOMAIN clean_dir.files)

\* C18: after output_working, whatever the patch and output directories held
\* before, the patch directory holds one artifact R.patch for each working
\* file R that clean has with another text, the diff of the two texts, and
\* nothing else; the output directory holds the working files clean lacks,
\* with their text, and nothing else.
C18_CaptureIsFunction ==
    opLog[2] = "output_working" =>
        /\ DOMAIN patch_dir.files = {PatchName(p) : p \in Edited}
        /\ \A p \in Edited :
              patch_dir.files[PatchName(p)]
                 = create_patch(clean_dir.files[p], working_dir.files[p], p)
        /\ \A n \in DOMAIN patch_dir.files : RelPath(n) \in DOMAIN working_dir.files
        /\ DOMAIN out_dir.files = Added
        /\ \A p \in Added : out_dir.files[p] = working_dir.files[p]

\* The first operation of a run is a capture that leaves one artifact and
\* one output file.
C18_Witness ==
    /\ opLog = <<"none", "output_working">>
    /\ Edited = {"a.txt"}
    /\ Added = {"new.txt"}
    /\ DOMAIN patch_dir.files = {PatchName("a.txt")}
    /\ DOMAIN out_dir.files = {"new.txt"}

-----------------------------------------------------------------------------
(***************************************************************************)
(*                   CLAIMS ABOUT THE GIT CODEC                            *)
(***************************************************************************)

CheckoutKeys(doc) == VALID_BRANCH_TYPES \cap DOMAIN doc

\* C13: decode_type returns the descriptor of the first key the document has
\* in the order branch, commit, tag, with that key's value as its branch,
\* and the base form (branch None, branch_type 'branch') for a document
\* with none of the three.
C13_DeclaredPriority ==
    gitLog[2] = "decode_type" =>
        LET top == IF "branch" \in DOMAIN git_doc THEN "branch"
                   ELSE IF "commit" \in DOMAIN git_doc THEN "commit"
                   ELSE "tag"
        IN  /\ git_decoded.repository = git_doc["repository"]
            /\ IF CheckoutKeys(git_doc) = {}
               THEN git_decoded.branch = None /\ git_decoded.branch_type = "branch"
               ELSE /\ git_decoded.branch_type = top
                    /\ git_decoded.branch = git_doc[top]

\* What encode_type has put in the document, for C20: the repository, and a
\* checkout key, the one branch_type names, only for a branch other than None.
EmitsOneKey ==
    /\ git_doc["repository"] = git_file.repository
    /\ CheckoutKeys(git_doc) =
          IF git_file.branch = None THEN {} ELSE {git_file.branch_type}
    /\ git_file.branch # None => git_doc[git_file.branch_type] = git_file.branch

\* C20 as claimed: decode_type of the document encode_type wrote for a
\* GitProjectFile returns its repository, branch and branch_type.
C20_RoundTrip ==
    gitLog = <<"encode_type", "decode_type">> =>
        /\ EmitsOneKey
        /\ git_decoded = git_file

\* C20 as amended: decode_type of the document encode_type wrote returns the
\* repository and the branch; it returns the branch_type when the branch is
\* not None, and 'branch' when it is None.
C20_RoundTripOfBranch ==
    gitLog = <<"encode_type", "decode_type">> =>
        /\ EmitsOneKey
        /\ git_decoded.repository = git_file.repository
        /\ git_decoded.branch = git_file.branch
        /\ git_decoded.branch_type =
              IF git_file.branch = None THEN "branch" ELSE git_file.branch_type

C20_Witness ==
    /\ gitLog = <<"encode_type", "decode_type">>
    /\ git_file.branch # None
    /\ git_file.branch_type = "tag"
    /\ git_decoded = git_file
    /\ iter_order[1] # "tag"

-----------------------------------------------------------------------------
(***************************************************************************)
(*                 CLAIMS ABOUT CONCURRENT PASSES                          *)
(***************************************************************************)

Ended == \A p \in {"rebuild", "capture"} : procs[p].pc \in {"done", "failed"}

Final == [working |-> working_dir, patch |-> patch_dir, out |-> out_dir]

\* What setup_working followed by output_working leaves, and what the other
\* order leaves, from the directories s.
RebuildThenCapture(s) ==
    {LET r == setup_working(s.clean, s.working, s.patch, s.out, order)
         c == output_working(s.clean, r.dir)
     IN  [working |-> r.dir, patch |-> c.patch_dir, out |-> c.out_dir] :
        order \in WalkOrders(s.patch.files)}

CaptureThenRebuild(s) ==
    LET c == output_working(s.clean, s.working)
    IN  {[working |-> setup_working(s.clean, s.working, c.patch_dir, c.out_dir,
                                    order).dir,
          patch |-> c.patch_dir, out |-> c.out_dir] :
            order \in WalkOrders(c.patch_dir.files)}

Serial(s) == RebuildThenCapture(s) \cup CaptureThenRebuild(s)

-----------------------------------------------------------------------------
(***************************************************************************)
(*             CLAIMS ABOUT THE REGISTRAR: SUCCESSFUL CALLS                *)
(***************************************************************************)

\* The registry that must not hold the name of a call, for mutual exclusion
\* in either order.
Counterpart(op) ==
    CASE op = "register_file_handler" -> file_handler_exceptions
      [] op = "add_file_handler_missing_message" -> file_codecs
      [] op = "register_post_processor" -> post_processor_exceptions
      [] op = "add_post_processor_missing_message" -> post_processors

\* The registries a call writes: codecs and builders together for a provider.
Written(op) ==
    CASE op = "register_file_handler" -> {1, 2}
      [] op = "add_file_handler_missing_message" -> {3}
      [] op = "register_post_processor" -> {4}
      [] op = "add_post_processor_missing_message" -> {5}

\* Registry `after` is registry `before` with the name added and nothing
\* else changed.
Gains(before, after, name) ==
    /\ name \notin DOMAIN before
    /\ DOMAIN after = (DOMAIN before) \cup {name}
    /\ \A n \in DOMAIN before : after[n] = before[n]

\* C21: a registration call at counter 0 with any name, or at counter 1 with
\* a name that has ':', whose name is neither in the target registry nor in
\* the registry mutual exclusion sets against it, returns; and a call that
\* returns adds exactly its name to its target registry (to file_codecs and
\* file_builders for a provider), leaving every other registry, every
\* entry stored before and the counter as they were.
C21_SuccessChangesOnlyTarget ==
    [][ lastCall'.op \in RegistrationOps =>
          LET op == lastCall'.op
              name == lastCall'.name
          IN  /\ ( /\ (stager = 0 \/ (stager = 1 /\ HasSep(name)))
                    /\ name \notin DOMAIN Target(op)
                    /\ name \notin DOMAIN Counterpart(op) )
                  => raised' = "none"
              /\ raised' = "none" =>
                    /\ stager' = stager
                    /\ \A i \in 1..5 :
                          IF i \in Written(op)
                          THEN Gains(registries[i], registries'[i], name)
                          ELSE registries'[i] = registries[i] ]_vars

\* At counter 1 a provider with ':' in its name has been stored beside the
\* one stored at counter 0 under a name without ':'.
C21_Witness ==
    /\ stager = 1
    /\ lastCall.op = "register_file_handler"
    /\ raised = "none"
    /\ HasSep(lastCall.name)
    /\ NoSepNames(file_codecs) # {}
    /\ DOMAIN file_builders = Names
    /\ DOMAIN file_handler_exceptions = {}

=============================================================================
